---- MODULE Spec2Model ----
(***************************************************************************)
(* Model of the character-view generator front end:                        *)
(*   src/App.tsx                   App, ImageInput, ResultDisplay          *)
(*   src/services/geminiService.ts generateView, generateTurnaroundVideo   *)
(* The long-running-operation poll of generateTurnaroundVideo is modelled  *)
(* await by await; the React state of App is modelled as variables and     *)
(* every invocation of an async handler as a slot with its own position.   *)
(***************************************************************************)
EXTENDS Integers, FiniteSets, Sequences, TLC

\* ------------------------------------------------------------------ bounds
\* Concurrent invocations of handleGenerateVideo (one poll each).
NumVid == 2
\* Concurrent invocations of handleGenerate.
NumGen == 2
\* Files the user can pick.
NumFiles == 1
\* The history counters of a poll count exactly below MaxCount and stay there.
MaxCount == 3

Vids == 1..NumVid
Gens == 1..NumGen

\* ------------------------------------------------------- program constants
\* a poll that suspends for half a second instead of five
IntervalMsShort == 500
\* setTimeout(resolve, 5000)
IntervalMs == 5000

\* ------------------------------------------------------------------ values
Null == [kind |-> "null"]
File(i) == [kind |-> "file", id |-> i]
Files == {File(i) : i \in 1..NumFiles}
\* `data:${generatedMimeType};base64,${generatedBase64}` made from a file
DataUrl(f) == [kind |-> "data", of |-> f.id]
\* the remote pointer operation.response.generatedVideos[0].video.uri of job j
Uri(j) == [kind |-> "uri", job |-> j]
\* URL.createObjectURL(blob) of the blob downloaded from uri u
ObjectUrl(u) == [kind |-> "blob", job |-> u.job]
Msg(s) == [kind |-> "msg", text |-> s]

AppStatus == {"IDLE", "PROCESSING", "SUCCESS", "ERROR"}
ImageResolution == {"1K", "2K", "4K"}
\* the values of the generation parameters the user moves between
ViewTypes == {"SHEET", "FRONT"}
PoseConfigs == {[armAngle |-> 90, legSpread |-> 10], [armAngle |-> 45, legSpread |-> 10]}
BackgroundConfigs == {[type |-> "WHITE", color |-> "#00ff00"],
                      [type |-> "TRANSPARENT", color |-> "#00ff00"]}
CustomPrompts == {"", "wearing armor"}
Fidelities == {90, 50}
\* the StyleAnalysis analyzeStyleConsistency returns for an original
Analysis(f) == [kind |-> "analysis", of |-> f.id]
\* no request
NoRequest == [model |-> "none", imageSize |-> "none"]

KeyErrorText == "Requested entity was not found."
ProviderMessages == {"", KeyErrorText, "quota exceeded"}
\* what a rejected SDK call (generateVideos, getVideosOperation) throws
ProviderErrors == [name : {"ApiError"}, message : ProviderMessages]
\* what a rejected fetch() or response.blob() throws
NetworkError == [name |-> "TypeError", message |-> "Failed to fetch"]
\* the error payload of a job that failed on the provider's side
JobError == [code |-> 13, message |-> "video generation failed"]
MissingResult == [name |-> "Error", message |-> "No video URI in response"]
DownloadFailed == [name |-> "Error", message |-> "Failed to download video: Forbidden"]
KeyIssueText == "API Key issue detected. Please select your key again and retry."

\* err.message && err.message.includes("Requested entity was not found")
IsKeyError(m) == m # "" /\ m \in {KeyErrorText}

\* ------------------------------------------------------------------- state
VARIABLES
  \* React state of App
  status, selectedFile, generatedImageUrl, error, resolution, videoUrl,
  isGeneratingVideo, analysis, isAnalyzing,
  viewType, poseConfig, backgroundConfig, customPrompt, fidelity,
  \* React state of ResultDisplay
  activeTab,
  \* window.aistudio exists (the host of the page)
  aistudio,
  \* the provider: state of the video job each poll created
  srv,
  \* handleGenerateVideo / generateTurnaroundVideo, per invocation
  vpc, operation, asked,
  \* history of each poll: calls made, time suspended, how it ended
  hist,
  \* handleGenerate, per invocation: position, the selectedFile and resolution
  \* of the render it was made in, the request generateView sent
  gpc, gfile, gres, greq,
  \* handleAnalyze: position and the selectedFile it was made with
  apc, afile

paramVars == <<viewType, poseConfig, backgroundConfig, customPrompt, fidelity>>
appVars == <<status, selectedFile, generatedImageUrl, error, resolution,
             videoUrl, isGeneratingVideo, activeTab, analysis, isAnalyzing,
             paramVars>>
vidVars == <<vpc, operation, asked, hist, srv>>
genVars == <<gpc, gfile, gres, greq>>
anaVars == <<apc, afile>>
vars == <<appVars, aistudio, vidVars, genVars, anaVars>>

\* held: the number of the call whose result the local operation holds (0: the
\* creation, k: the k-th fetch); sent: the number of the call whose result the
\* last fetch was given; downloads: download requests made
NoHist == [creates |-> 0, sleeps |-> 0, fetches |-> 0, elapsed |-> 0,
           firstDone |-> -1, thrown |-> Null, outcome |-> [kind |-> "none"],
           held |-> -1, sent |-> -1, downloads |-> 0]
NoOperation == [name |-> 0, done |-> FALSE, uri |-> Null, error |-> Null]

Inc(n) == IF n < MaxCount THEN n + 1 ELSE n
AddMs(t) == IF t < MaxCount * IntervalMs THEN t + IntervalMs ELSE t
\* the number of a call, exact below MaxCount - 1
Rev(n) == IF n < MaxCount - 1 THEN n ELSE MaxCount - 1

Init ==
  /\ status = "IDLE"
  /\ selectedFile = Null
  /\ generatedImageUrl = Null
  /\ error = Null
  /\ resolution = "1K"
  /\ videoUrl = Null
  /\ isGeneratingVideo = FALSE
  /\ activeTab = "image"
  /\ aistudio \in BOOLEAN
  /\ srv = [p \in Vids |-> "none"]
  /\ vpc = [p \in Vids |-> "idle"]
  /\ operation = [p \in Vids |-> NoOperation]
  /\ asked = [p \in Vids |-> 0]
  /\ hist = [p \in Vids |-> NoHist]
  /\ gpc = [g \in Gens |-> "idle"]
  /\ gfile = [g \in Gens |-> Null]
  /\ gres = [g \in Gens |-> "1K"]
  /\ greq = [g \in Gens |-> NoRequest]
  /\ analysis = Null
  /\ isAnalyzing = FALSE
  /\ viewType = "SHEET"
  /\ poseConfig = [armAngle |-> 90, legSpread |-> 10]
  /\ backgroundConfig = [type |-> "WHITE", color |-> "#00ff00"]
  /\ customPrompt = ""
  /\ fidelity = 90
  /\ apc = "idle"
  /\ afile = Null

\* ------------------------------------------------- what the page lets you do
\* disabled={status === AppStatus.PROCESSING || isGeneratingVideo}
InputDisabled == status = "PROCESSING" \/ isGeneratingVideo
\* disabled={!selectedFile || status === AppStatus.PROCESSING || isGeneratingVideo}
GenerateDisabled == selectedFile = Null \/ status = "PROCESSING" \/ isGeneratingVideo
\* footer button: {generatedImageUrl && ...} {!videoUrl && !isGeneratingVideo && ...}
FooterVideoButton == generatedImageUrl # Null /\ videoUrl = Null /\ ~isGeneratingVideo
\* button of the Turnaround tab: rendered while there is an image and no video;
\* it carries no disabled attribute, and the loading overlay drawn over it while
\* isGeneratingVideo keeps the pointer off it, not the keyboard
TabVideoButton == generatedImageUrl # Null /\ activeTab = "video" /\ videoUrl = Null

\* ---------------------------------------------------------------- provider
\* the operation object the provider returns for job j
OpOf(j, s) ==
  [name |-> j,
   done |-> s # "running",
   uri |-> IF s = "succeeded" THEN Uri(j) ELSE Null,
   error |-> IF s = "failed" THEN JobError ELSE Null]

\* the job makes progress on the provider's side
ServerProgress(j, s) ==
  /\ srv[j] = "running"
  /\ s \in {"succeeded", "failed", "empty"}
  /\ srv' = [srv EXCEPT ![j] = s]
  /\ UNCHANGED <<appVars, aistudio, vpc, operation, asked, hist, genVars, anaVars>>

\* ------------------------------------------------- generateTurnaroundVideo
\* a timeout the source does not have, between one interval and two
TimeoutMs == IntervalMs + IntervalMs \div 2

\* while (!operation.response): a job that ended without a response is polled on
LoopTestResponse(op) == op.uri = Null
\* do { ... } while (!operation.done): one suspension and fetch before the test
LoopTestDoWhile(op) == ~op.done \/ hist[op.name].fetches = 0
\* a loop that gives up once it has been suspended for TimeoutMs
LoopTestTimeout(op) == ~op.done /\ hist[op.name].elapsed < TimeoutMs
\* a loop that stops when the image it was started for has been replaced
LoopTestCancel(op) == ~op.done /\ generatedImageUrl # Null
\* while (!operation.done)
LoopTest(op) == ~op.done
\* operation.response?.generatedVideos?.[0]?.video?.uri
VideoUri(op) == op.uri
\* catch (error) { throw new Error("Failed to generate video.") }
RethrowGeneric(e) == [name |-> "Error", message |-> "Failed to generate video."]
\* catch (error) { throw new Error(error.message || "Failed to generate video.") }
Rethrow(e) ==
  [name |-> "Error",
   message |-> IF e.message = "" THEN "Failed to generate video." ELSE e.message]
\* a copy of the handle generateVideos returned, passed to every fetch
FirstRev(p) == 0
\* operation = await getVideosOperation({operation}): the fetch is given the
\* value the local holds, the result of the call before it
HeldRev(p) == hist[p].held
\* one module-level operation variable for every invocation
HandleShared(p) == operation[1]
\* getVideosOperation({operation}): the handle this invocation holds
Handle(p) == operation[p]
\* the loop without the if (!videoUri) throw
AfterStatusNoCheck(op) == IF LoopTest(op) THEN "sleep" ELSE "download"
\* what the poll does once it holds a status: sleep, or leave the loop
AfterStatus(op) ==
  IF LoopTest(op) THEN "sleep"
  ELSE IF VideoUri(op) = Null THEN "throw" ELSE "download"

\* history: the number of the fetch on which the poll first saw done (0: at
\* creation)
Seen(h, op) ==
  LET k == [h EXCEPT !.held = Rev(h.fetches)] IN
  IF op.done /\ h.firstDone = -1 THEN [k EXCEPT !.firstDone = h.fetches] ELSE k

\* generateTurnaroundVideo returns v: its promise is resolved
Resolve(p, v, h) ==
  /\ hist' = [hist EXCEPT ![p] = [h EXCEPT !.outcome = [kind |-> "resolved", value |-> v]]]
  /\ vpc' = [vpc EXCEPT ![p] = "resolved"]
  /\ UNCHANGED appVars

\* a call of generateTurnaroundVideo threw e: the catch rethrows it and the
\* promise is rejected
Reject(p, e, h) ==
  /\ hist' = [hist EXCEPT ![p] = [h EXCEPT !.thrown = e,
                                           !.outcome = [kind |-> "rejected", error |-> Rethrow(e)]]]
  /\ vpc' = [vpc EXCEPT ![p] = "rejected"]
  /\ UNCHANGED appVars

\* the poll holds the status op: the loop test and what follows it
Continue(p, op, h) ==
  /\ operation' = [operation EXCEPT ![p] = op]
  /\ CASE AfterStatus(op) = "sleep" ->
            /\ vpc' = [vpc EXCEPT ![p] = "sleep"]
            /\ hist' = [hist EXCEPT ![p] = h]
            /\ UNCHANGED appVars
       [] AfterStatus(op) = "download" ->
            /\ vpc' = [vpc EXCEPT ![p] = "download"]
            /\ hist' = [hist EXCEPT ![p] = [h EXCEPT !.downloads = Inc(@)]]
            /\ UNCHANGED appVars
       [] OTHER -> Reject(p, MissingResult, h)

\* setIsGeneratingVideo(true); setError(null); generateTurnaroundVideo(...)
\* runs up to its first await: generateVideos has been called
StartPoll(p) ==
  /\ isGeneratingVideo' = TRUE
  /\ error' = Null
  /\ vpc' = [vpc EXCEPT ![p] = "create"]
  /\ operation' = [operation EXCEPT ![p] = NoOperation]
  /\ hist' = [hist EXCEPT ![p] = [NoHist EXCEPT !.creates = 1,
                                                !.outcome = [kind |-> "pending"]]]
  /\ UNCHANGED <<status, selectedFile, generatedImageUrl, resolution, videoUrl,
                 activeTab, analysis, isAnalyzing, paramVars, aistudio, asked,
                 srv, genVars, anaVars>>

FreeVid == {p \in Vids : vpc[p] = "idle"}

\* a click on either Generate-video button: handleGenerateVideo up to its
\* first await that yields to the page
ClickGenerateVideo(p) ==
  /\ FooterVideoButton \/ TabVideoButton
  /\ FreeVid # {} /\ p = CHOOSE q \in FreeVid : \A r \in FreeVid : q <= r
  /\ generatedImageUrl # Null
  /\ IF aistudio
       THEN /\ vpc' = [vpc EXCEPT ![p] = "hasKey"]
            /\ hist' = [hist EXCEPT ![p] = NoHist]
            /\ operation' = [operation EXCEPT ![p] = NoOperation]
            /\ UNCHANGED <<appVars, aistudio, asked, srv, genVars, anaVars>>
       ELSE StartPoll(p)

\* checkApiKey: aistudio.hasSelectedApiKey() settled; when it rejects,
\* handleGenerateVideo rejects before it has set anything
VidHasKeySettles(p, r) ==
  /\ vpc[p] = "hasKey"
  /\ CASE r = "yes" -> StartPoll(p)
       [] r = "no" ->
            /\ vpc' = [vpc EXCEPT ![p] = "selectKey"]
            /\ UNCHANGED <<appVars, aistudio, operation, asked, hist, srv, genVars, anaVars>>
       [] OTHER ->
            /\ vpc' = [vpc EXCEPT ![p] = "idle"]
            /\ UNCHANGED <<appVars, aistudio, operation, asked, hist, srv, genVars, anaVars>>

\* checkApiKey: aistudio.openSelectKey() settled
VidSelectKeySettles(p, ok) ==
  /\ vpc[p] = "selectKey"
  /\ IF ok
       THEN StartPoll(p)
       ELSE /\ vpc' = [vpc EXCEPT ![p] = "idle"]
            /\ UNCHANGED <<appVars, aistudio, operation, asked, hist, srv, genVars, anaVars>>

\* a creation that is submitted again when it fails
CreateSettlesRetry(p, ok, s, e) ==
  /\ vpc[p] = "create"
  /\ IF ok
       THEN /\ srv' = [srv EXCEPT ![p] = s]
            /\ Continue(p, OpOf(p, s), Seen(hist[p], OpOf(p, s)))
       ELSE IF hist[p].creates < 2
         THEN /\ hist' = [hist EXCEPT ![p] = [@ EXCEPT !.creates = Inc(@)]]
              /\ UNCHANGED <<appVars, vpc, srv, operation>>
         ELSE /\ Reject(p, e, hist[p])
              /\ UNCHANGED <<srv, operation>>
  /\ UNCHANGED <<aistudio, asked, genVars, anaVars>>

\* await ai.models.generateVideos(...) settled
CreateSettles(p, ok, s, e) ==
  /\ vpc[p] = "create"
  /\ IF ok
       THEN /\ srv' = [srv EXCEPT ![p] = s]
            /\ Continue(p, OpOf(p, s), Seen(hist[p], OpOf(p, s)))
       ELSE /\ Reject(p, e, hist[p])
            /\ UNCHANGED <<srv, operation>>
  /\ UNCHANGED <<aistudio, asked, genVars, anaVars>>

\* the 5000 ms timer fired: getVideosOperation({operation}) is called
TimerFires(p) ==
  /\ vpc[p] = "sleep"
  /\ vpc' = [vpc EXCEPT ![p] = "fetch"]
  /\ asked' = [asked EXCEPT ![p] = Handle(p).name]
  /\ hist' = [hist EXCEPT ![p] = [@ EXCEPT !.sleeps = Inc(@), !.elapsed = AddMs(@),
                                          !.fetches = Inc(@), !.sent = HeldRev(p)]]
  /\ UNCHANGED <<appVars, aistudio, operation, srv, genVars, anaVars>>

\* await ai.operations.getVideosOperation({operation}) settled
FetchSettles(p, ok, e) ==
  /\ vpc[p] = "fetch"
  /\ IF ok
       THEN LET op == OpOf(asked[p], srv[asked[p]]) IN
            Continue(p, op, Seen(hist[p], op))
       ELSE /\ Reject(p, e, hist[p])
            /\ UNCHANGED operation
  /\ UNCHANGED <<aistudio, asked, srv, genVars, anaVars>>

\* a download that is requested again when the answer is not OK
DownloadSettlesRetry(p, r) ==
  /\ vpc[p] = "download"
  /\ CASE r = "ok" ->
            /\ vpc' = [vpc EXCEPT ![p] = "blob"]
            /\ UNCHANGED <<appVars, hist>>
       [] r = "notok" ->
            /\ hist' = [hist EXCEPT ![p] = [@ EXCEPT !.downloads = Inc(@)]]
            /\ UNCHANGED <<appVars, vpc>>
       [] OTHER -> Reject(p, NetworkError, hist[p])
  /\ UNCHANGED <<aistudio, operation, asked, srv, genVars, anaVars>>

\* await fetch(`${videoUri}&key=...`) settled
DownloadSettles(p, r) ==
  /\ vpc[p] = "download"
  /\ CASE r = "ok" ->
            /\ vpc' = [vpc EXCEPT ![p] = "blob"]
            /\ UNCHANGED <<appVars, hist>>
       [] r = "notok" -> Reject(p, DownloadFailed, hist[p])
       [] OTHER -> Reject(p, NetworkError, hist[p])
  /\ UNCHANGED <<aistudio, operation, asked, srv, genVars, anaVars>>

\* await response.blob() settled
BlobSettles(p, ok) ==
  /\ vpc[p] = "blob"
  /\ IF ok
       THEN Resolve(p, ObjectUrl(VideoUri(operation[p])), hist[p])
       ELSE Reject(p, NetworkError, hist[p])
  /\ UNCHANGED <<aistudio, operation, asked, srv, genVars, anaVars>>

\* the invocation is over: its locals and its job are gone
Forget(p) ==
  /\ vpc' = [vpc EXCEPT ![p] = "idle"]
  /\ operation' = [operation EXCEPT ![p] = NoOperation]
  /\ asked' = [asked EXCEPT ![p] = 0]
  /\ hist' = [hist EXCEPT ![p] = NoHist]
  /\ srv' = [srv EXCEPT ![p] = "none"]

\* handleGenerateVideo resumes after await generateTurnaroundVideo(...), in the
\* same turn of the event loop in which the promise settled: setVideoUrl (and
\* the effect on videoUrl that switches the tab), or the catch, then finally
VidContinues(p) ==
  /\ vpc[p] \in {"resolved", "rejected"}
  /\ IF vpc[p] = "resolved"
       THEN /\ videoUrl' = hist[p].outcome.value
            /\ activeTab' = "video"
            /\ isGeneratingVideo' = FALSE
            /\ Forget(p)
            /\ UNCHANGED <<status, selectedFile, generatedImageUrl, error, resolution,
                           analysis, isAnalyzing, paramVars>>
       ELSE LET m == hist[p].outcome.error.message IN
            IF IsKeyError(m) /\ aistudio
              THEN /\ vpc' = [vpc EXCEPT ![p] = "recover"]
                   /\ operation' = [operation EXCEPT ![p] = NoOperation]
                   /\ asked' = [asked EXCEPT ![p] = 0]
                   /\ hist' = [hist EXCEPT ![p] = NoHist]
                   /\ srv' = [srv EXCEPT ![p] = "none"]
                   /\ UNCHANGED appVars
              ELSE /\ error' = Msg(IF m = "" THEN "Failed to generate video." ELSE m)
                   /\ isGeneratingVideo' = FALSE
                   /\ Forget(p)
                   /\ UNCHANGED <<status, selectedFile, generatedImageUrl, resolution,
                                  videoUrl, activeTab, analysis, isAnalyzing,
                                  paramVars>>
  /\ UNCHANGED <<aistudio, genVars, anaVars>>

\* a handleGenerateVideo that clears the flag at the end of its try and of its
\* catch instead of in a finally
VidRecoverSettlesNoFinally(p, ok) ==
  /\ vpc[p] = "recover"
  /\ vpc' = [vpc EXCEPT ![p] = "idle"]
  /\ error' = IF ok THEN Msg(KeyIssueText) ELSE error
  /\ isGeneratingVideo' = IF ok THEN FALSE ELSE isGeneratingVideo
  /\ UNCHANGED <<status, selectedFile, generatedImageUrl, resolution, videoUrl,
                 activeTab, analysis, isAnalyzing, paramVars, aistudio, operation,
                 asked, hist, srv, genVars, anaVars>>

\* catch of handleGenerateVideo: await aistudio.openSelectKey() settled; the
\* finally runs whether it resolved or rejected
VidRecoverSettles(p, ok) ==
  /\ vpc[p] = "recover"
  /\ vpc' = [vpc EXCEPT ![p] = "idle"]
  /\ error' = IF ok THEN Msg(KeyIssueText) ELSE error
  /\ isGeneratingVideo' = FALSE
  /\ UNCHANGED <<status, selectedFile, generatedImageUrl, resolution, videoUrl,
                 activeTab, analysis, isAnalyzing, paramVars, aistudio, operation,
                 asked, hist, srv, genVars, anaVars>>

\* ------------------------------------------------------------ generateView
\* const model = resolution === '1K' ? 'gemini-3-pro-image-preview' : ...: the
\* two models the wrong way round
ModelForSwapped(r) ==
  IF r = "1K" THEN "gemini-3-pro-image-preview" ELSE "gemini-2.5-flash-image"
\* const model = resolution === '1K' ? 'gemini-2.5-flash-image'
\*                                    : 'gemini-3-pro-image-preview'
ModelFor(r) ==
  IF r = "1K" THEN "gemini-2.5-flash-image" ELSE "gemini-3-pro-image-preview"
\* if (model === 'gemini-3-pro-image-preview') imageConfig.imageSize = resolution
ImageSizeFor(r) ==
  IF ModelFor(r) = "gemini-3-pro-image-preview" THEN r ELSE "none"
\* the generateContent request of generateView for a resolution
RequestFor(r) == [model |-> ModelFor(r), imageSize |-> ImageSizeFor(r)]

\* what generateView rejects with: its catch rethrows
\* new Error(error.message || "Failed to generate image.")
GenerateMessages == {KeyErrorText, "Failed to generate image."}

\* ---------------------------------------------------------- handleGenerate
\* setStatus(PROCESSING); setAnalysis(null); setVideoUrl(null); setError(null);
\* generateView(...) is called with the resolution r the handler holds
StartGenerate(g, r) ==
  /\ status' = "PROCESSING"
  /\ analysis' = Null
  /\ videoUrl' = Null
  /\ error' = Null
  /\ gpc' = [gpc EXCEPT ![g] = "generate"]
  /\ greq' = [greq EXCEPT ![g] = RequestFor(r)]
  /\ UNCHANGED <<selectedFile, generatedImageUrl, resolution, isGeneratingVideo,
                 activeTab, isAnalyzing, paramVars, aistudio, vidVars, anaVars>>

\* the handler returns: its locals are gone
GenReturns(g) ==
  /\ gpc' = [gpc EXCEPT ![g] = "idle"]
  /\ gfile' = [gfile EXCEPT ![g] = Null]
  /\ gres' = [gres EXCEPT ![g] = "1K"]
  /\ greq' = [greq EXCEPT ![g] = NoRequest]

FreeGen == {g \in Gens : gpc[g] = "idle"}

\* a click on Generate View: handleGenerate up to its first await that
\* yields to the page; the handler holds the state of the render it was made in
ClickGenerate(g) ==
  /\ ~GenerateDisabled
  /\ FreeGen # {} /\ g = CHOOSE q \in FreeGen : \A r \in FreeGen : q <= r
  /\ selectedFile # Null
  /\ gfile' = [gfile EXCEPT ![g] = selectedFile]
  /\ gres' = [gres EXCEPT ![g] = resolution]
  /\ IF resolution # "1K" /\ aistudio
       THEN /\ gpc' = [gpc EXCEPT ![g] = "hasKey"]
            /\ UNCHANGED <<appVars, aistudio, vidVars, anaVars, greq>>
       ELSE StartGenerate(g, resolution)

\* checkApiKey: aistudio.hasSelectedApiKey() settled; when it rejects,
\* handleGenerate rejects before it has set anything
GenHasKeySettles(g, r) ==
  /\ gpc[g] = "hasKey"
  /\ CASE r = "yes" -> StartGenerate(g, gres[g]) /\ UNCHANGED <<gfile, gres>>
       [] r = "no" ->
            /\ gpc' = [gpc EXCEPT ![g] = "selectKey"]
            /\ UNCHANGED <<appVars, aistudio, vidVars, anaVars, gfile, gres, greq>>
       [] OTHER ->
            /\ GenReturns(g)
            /\ UNCHANGED <<appVars, aistudio, vidVars, anaVars>>

\* a checkApiKey whose catch returns true
GenSelectKeySettlesAnyway(g, ok) ==
  /\ gpc[g] = "selectKey"
  /\ StartGenerate(g, gres[g])
  /\ UNCHANGED <<gfile, gres>>

\* checkApiKey: aistudio.openSelectKey() settled
GenSelectKeySettles(g, ok) ==
  /\ gpc[g] = "selectKey"
  /\ IF ok
       THEN StartGenerate(g, gres[g]) /\ UNCHANGED <<gfile, gres>>
       ELSE /\ GenReturns(g)
            /\ UNCHANGED <<appVars, aistudio, vidVars, anaVars>>

\* await generateView(...) settled
GenerateSettles(g, ok, m) ==
  /\ gpc[g] = "generate"
  /\ IF ok
       THEN /\ generatedImageUrl' = DataUrl(gfile[g])
            /\ status' = "SUCCESS"
            /\ GenReturns(g)
            /\ UNCHANGED error
       ELSE IF IsKeyError(m) /\ aistudio
         THEN /\ gpc' = [gpc EXCEPT ![g] = "recover"]
              /\ UNCHANGED <<generatedImageUrl, status, error, gfile, gres, greq>>
         ELSE /\ error' = Msg(IF m = "" THEN "An unexpected error occurred." ELSE m)
              /\ status' = "ERROR"
              /\ GenReturns(g)
              /\ UNCHANGED generatedImageUrl
  /\ UNCHANGED <<selectedFile, resolution, videoUrl, isGeneratingVideo, activeTab,
                 analysis, isAnalyzing, paramVars, aistudio, vidVars, anaVars>>

\* catch of handleGenerate: await aistudio.openSelectKey() settled; when it
\* rejects the handler rejects inside its catch, before setError and setStatus
GenRecoverSettles(g, ok) ==
  /\ gpc[g] = "recover"
  /\ GenReturns(g)
  /\ IF ok
       THEN error' = Msg(KeyIssueText) /\ status' = "ERROR"
       ELSE UNCHANGED <<error, status>>
  /\ UNCHANGED <<selectedFile, generatedImageUrl, resolution, videoUrl,
                 isGeneratingVideo, activeTab, analysis, isAnalyzing, paramVars,
                 aistudio, vidVars, anaVars>>

\* ----------------------------------------------------------- handleAnalyze
\* the Analysis button: {generatedImageUrl && ...} {!analysis && activeTab ===
\* 'image' && ...} disabled={isAnalyzing}
AnalyzeButton ==
  generatedImageUrl # Null /\ analysis = Null /\ activeTab = "image" /\ ~isAnalyzing

\* a click on Analysis: setIsAnalyzing(true); analyzeStyleConsistency(...) is
\* called
ClickAnalyze ==
  /\ AnalyzeButton
  /\ selectedFile # Null /\ generatedImageUrl # Null
  /\ apc = "idle"
  /\ isAnalyzing' = TRUE
  /\ apc' = "analyze"
  /\ afile' = selectedFile
  /\ UNCHANGED <<status, selectedFile, generatedImageUrl, error, resolution, videoUrl,
                 isGeneratingVideo, activeTab, analysis, paramVars, aistudio,
                 vidVars, genVars>>

\* await analyzeStyleConsistency(...) settled: setAnalysis(result), or the
\* catch that only logs; finally setIsAnalyzing(false)
AnalyzeSettles(ok) ==
  /\ apc = "analyze"
  /\ analysis' = IF ok THEN Analysis(afile) ELSE analysis
  /\ isAnalyzing' = FALSE
  /\ apc' = "idle"
  /\ afile' = Null
  /\ UNCHANGED <<status, selectedFile, generatedImageUrl, error, resolution, videoUrl,
                 isGeneratingVideo, activeTab, paramVars, aistudio, vidVars, genVars>>

\* ------------------------------------------------------------ other events
\* a handleImageSelected that also puts the resolution back to 1K
SelectImageResetsAll(f) ==
  /\ ~InputDisabled
  /\ status' = "IDLE"
  /\ generatedImageUrl' = Null
  /\ analysis' = Null
  /\ videoUrl' = Null
  /\ error' = Null
  /\ selectedFile' = f
  /\ resolution' = "1K"
  /\ UNCHANGED <<isGeneratingVideo, activeTab, isAnalyzing, paramVars,
                 aistudio, vidVars, genVars, anaVars>>

\* handleImageSelected(file), from the file input or a drop
SelectImage(f) ==
  /\ ~InputDisabled
  /\ status' = "IDLE"
  /\ generatedImageUrl' = Null
  /\ analysis' = Null
  /\ videoUrl' = Null
  /\ error' = Null
  /\ selectedFile' = f
  /\ UNCHANGED <<resolution, isGeneratingVideo, activeTab, isAnalyzing, paramVars,
                 aistudio, vidVars, genVars, anaVars>>

\* onResolutionChange={setResolution}
SetResolution(r) ==
  /\ ~InputDisabled
  /\ r # resolution
  /\ resolution' = r
  /\ UNCHANGED <<status, selectedFile, generatedImageUrl, error, videoUrl,
                 isGeneratingVideo, activeTab, analysis, isAnalyzing, paramVars,
                 aistudio, vidVars, genVars, anaVars>>

\* what no parameter change touches
ParamFrame ==
  UNCHANGED <<status, selectedFile, generatedImageUrl, error, resolution, videoUrl,
              isGeneratingVideo, activeTab, analysis, isAnalyzing, aistudio,
              vidVars, genVars, anaVars>>

\* onViewChange={setViewType}
SetViewType(v) ==
  /\ ~InputDisabled
  /\ v # viewType
  /\ viewType' = v
  /\ ParamFrame
  /\ UNCHANGED <<poseConfig, backgroundConfig, customPrompt, fidelity>>

\* onPoseConfigChange={setPoseConfig}: the sliders shown for the sheet, front
\* and back views
SetPoseConfig(c) ==
  /\ ~InputDisabled
  /\ viewType \in {"FRONT", "SHEET", "BACK"}
  /\ c # poseConfig
  /\ poseConfig' = c
  /\ ParamFrame
  /\ UNCHANGED <<viewType, backgroundConfig, customPrompt, fidelity>>

\* onBackgroundConfigChange={setBackgroundConfig}
SetBackgroundConfig(c) ==
  /\ ~InputDisabled
  /\ c # backgroundConfig
  /\ backgroundConfig' = c
  /\ ParamFrame
  /\ UNCHANGED <<viewType, poseConfig, customPrompt, fidelity>>

\* onCustomPromptChange={setCustomPrompt}
SetCustomPrompt(t) ==
  /\ ~InputDisabled
  /\ t # customPrompt
  /\ customPrompt' = t
  /\ ParamFrame
  /\ UNCHANGED <<viewType, poseConfig, backgroundConfig, fidelity>>

\* onFidelityChange={setFidelity}
SetFidelity(n) ==
  /\ ~InputDisabled
  /\ n # fidelity
  /\ fidelity' = n
  /\ ParamFrame
  /\ UNCHANGED <<viewType, poseConfig, backgroundConfig, customPrompt>>

\* onClick={() => setActiveTab(t)}
SetActiveTab(t) ==
  /\ t # activeTab
  /\ activeTab' = t
  /\ UNCHANGED <<status, selectedFile, generatedImageUrl, error, resolution, videoUrl,
                 isGeneratingVideo, analysis, isAnalyzing, paramVars, aistudio,
                 vidVars, genVars, anaVars>>

\* ----------------------------------------------------------- specification
UserEvent ==
  \/ \E f \in Files : SelectImage(f)
  \/ \E r \in ImageResolution : SetResolution(r)
  \/ \E t \in {"image", "video"} : SetActiveTab(t)
  \/ \E g \in Gens : ClickGenerate(g)
  \/ \E p \in Vids : ClickGenerateVideo(p)
  \/ ClickAnalyze

SetParameter ==
  \/ \E v \in ViewTypes : SetViewType(v)
  \/ \E c \in PoseConfigs : SetPoseConfig(c)
  \/ \E c \in BackgroundConfigs : SetBackgroundConfig(c)
  \/ \E t \in CustomPrompts : SetCustomPrompt(t)
  \/ \E n \in Fidelities : SetFidelity(n)

GenStep(g) ==
  \/ \E r \in {"yes", "no", "throws"} : GenHasKeySettles(g, r)
  \/ \E b \in BOOLEAN : GenSelectKeySettles(g, b)
  \/ \E b \in BOOLEAN, m \in GenerateMessages : GenerateSettles(g, b, m)
  \/ \E b \in BOOLEAN : GenRecoverSettles(g, b)

KeyStep(p) ==
  \/ \E r \in {"yes", "no", "throws"} : VidHasKeySettles(p, r)
  \/ \E b \in BOOLEAN : VidSelectKeySettles(p, b)
  \/ \E b \in BOOLEAN : VidRecoverSettles(p, b)

PollStep(p) ==
  \/ \E b \in BOOLEAN, s \in {"running", "succeeded", "failed", "empty"},
        e \in ProviderErrors : CreateSettles(p, b, s, e)
  \/ TimerFires(p)
  \/ \E b \in BOOLEAN, e \in ProviderErrors : FetchSettles(p, b, e)
  \/ \E r \in {"ok", "notok", "neterr"} : DownloadSettles(p, r)
  \/ \E b \in BOOLEAN : BlobSettles(p, b)

Provider ==
  \E j \in Vids, s \in {"succeeded", "failed", "empty"} : ServerProgress(j, s)

\* a settled promise's continuation runs before the event loop takes the
\* next task
Quiet == \A p \in Vids : vpc[p] \notin {"resolved", "rejected"}

AnaStep == \E b \in BOOLEAN : AnalyzeSettles(b)

Next ==
  \/ Quiet /\ UserEvent
  \/ Quiet /\ SetParameter
  \/ Quiet /\ \E g \in Gens : GenStep(g)
  \/ Quiet /\ AnaStep
  \/ Quiet /\ \E p \in Vids : KeyStep(p)
  \/ Quiet /\ \E p \in Vids : PollStep(p)
  \/ Quiet /\ Provider
  \/ \E p \in Vids : VidContinues(p)

Spec == Init /\ [][Next]_vars

\* The page once a first image has been generated, with a user who from then
\* on only asks for videos; the timers fire and the calls in flight settle.
InitVideo ==
  /\ status = "SUCCESS"
  /\ selectedFile = File(1)
  /\ generatedImageUrl = DataUrl(File(1))
  /\ error = Null
  /\ resolution = "1K"
  /\ videoUrl = Null
  /\ isGeneratingVideo = FALSE
  /\ activeTab = "image"
  /\ aistudio \in BOOLEAN
  /\ srv = [p \in Vids |-> "none"]
  /\ vpc = [p \in Vids |-> "idle"]
  /\ operation = [p \in Vids |-> NoOperation]
  /\ asked = [p \in Vids |-> 0]
  /\ hist = [p \in Vids |-> NoHist]
  /\ gpc = [g \in Gens |-> "idle"]
  /\ gfile = [g \in Gens |-> Null]
  /\ gres = [g \in Gens |-> "1K"]
  /\ greq = [g \in Gens |-> NoRequest]
  /\ analysis = Null
  /\ isAnalyzing = FALSE
  /\ viewType = "SHEET"
  /\ poseConfig = [armAngle |-> 90, legSpread |-> 10]
  /\ backgroundConfig = [type |-> "WHITE", color |-> "#00ff00"]
  /\ customPrompt = ""
  /\ fidelity = 90
  /\ apc = "idle"
  /\ afile = Null

NextVideo ==
  \/ Quiet /\ \E t \in {"image", "video"} : SetActiveTab(t)
  \/ Quiet /\ \E p \in Vids : ClickGenerateVideo(p)
  \/ Quiet /\ \E p \in Vids : KeyStep(p)
  \/ Quiet /\ \E p \in Vids : PollStep(p)
  \/ Quiet /\ Provider
  \/ \E p \in Vids : VidContinues(p)

VideoSpec == InitVideo /\ [][NextVideo]_vars

\* The event loop runs every task that is ready: a continuation at once, and a
\* fired timer or a settled call however often other continuations come first.
FairSpec ==
  /\ InitVideo
  /\ [][NextVideo]_vars
  /\ \A p \in Vids : SF_vars(Quiet /\ PollStep(p)) /\ WF_vars(VidContinues(p))

\* The page with a user who picks images and resolutions and asks for views.
NextGen ==
  \/ \E f \in Files : SelectImage(f)
  \/ \E r \in ImageResolution : SetResolution(r)
  \/ \E g \in Gens : ClickGenerate(g)
  \/ \E g \in Gens : GenStep(g)

GenSpec == Init /\ [][NextGen]_vars

\* The whole page with a user who changes no generation parameter other than
\* the resolution and who lets an invocation of a handler return before
\* clicking for the next one of the same handler.
NextPage ==
  \/ Quiet /\ \E f \in Files : SelectImage(f)
  \/ Quiet /\ \E r \in ImageResolution : SetResolution(r)
  \/ Quiet /\ \E t \in {"image", "video"} : SetActiveTab(t)
  \/ Quiet /\ ClickGenerate(1)
  \/ Quiet /\ ClickGenerateVideo(1)
  \/ Quiet /\ ClickAnalyze
  \/ Quiet /\ GenStep(1)
  \/ Quiet /\ AnaStep
  \/ Quiet /\ KeyStep(1)
  \/ Quiet /\ PollStep(1)
  \/ Quiet /\ Provider
  \/ VidContinues(1)

PageSpec == Init /\ [][NextPage]_vars

\* The same page and user, who now also moves the generation parameters.
NextInput ==
  \/ NextPage
  \/ Quiet /\ SetParameter

InputSpec == Init /\ [][NextInput]_vars

\* The page once a first image has been generated, with a user who asks for
\* videos and for the analysis and who may select a new image.
NextResult ==
  \/ NextVideo
  \/ Quiet /\ \E f \in Files : SelectImage(f)
  \/ Quiet /\ ClickAnalyze
  \/ Quiet /\ AnaStep

ResultSpec == InitVideo /\ [][NextResult]_vars

\* -------------------------------------------------------------- properties
InLoop(p) == vpc[p] \in {"sleep", "fetch"}
Active(p) == vpc[p] \in {"create", "sleep", "fetch", "download", "blob"}
Settled(p) == vpc[p] \in {"resolved", "rejected"}

\* C1: a poll whose job first reports done on its Nth status fetch (N >= 1)
\* has left the loop after exactly N suspensions of 5000 ms, N x 5000 ms in
\* all, and exactly N status fetches.
C1_ExactlyNSuspensions ==
  \A p \in Vids : \A N \in 1..(MaxCount - 1) :
    hist[p].firstDone = N =>
      /\ ~InLoop(p)
      /\ hist[p].sleeps = N
      /\ hist[p].fetches = N
      /\ hist[p].elapsed = N * 5000

\* the scenario of the specification: not done at creation, not done on the
\* first fetch, done on the second; the poll resolved after 10000 ms
C1_Witness ==
  \E p \in Vids :
    /\ vpc[p] = "resolved"
    /\ hist[p].firstDone = 2
    /\ hist[p].sleeps = 2
    /\ hist[p].elapsed = 10000

\* C2 (amended): once a status reports done the poll makes no further status
\* fetch; a done status with a URI leads to the download of that URI, and the
\* poll resolves, when the download succeeds, with the object URL of the
\* downloaded blob; when it fails the poll rejects with the download's error.
C2_NoFetchAfterDone ==
  \A p \in Vids :
    /\ InLoop(p) => hist[p].firstDone = -1
    /\ hist[p].firstDone # -1 => hist[p].fetches = hist[p].firstDone
    /\ vpc[p] = "resolved" =>
         /\ operation[p].done /\ operation[p].uri # Null
         /\ hist[p].outcome.value = ObjectUrl(operation[p].uri)
    /\ operation[p].done /\ operation[p].uri # Null =>
         /\ vpc[p] \in {"download", "blob", "resolved", "rejected"}
         /\ vpc[p] = "rejected" => hist[p].thrown \in {DownloadFailed, NetworkError}

\* a poll resolved with the object URL after a done status on a fetch
C2_Witness ==
  \E p \in Vids :
    /\ vpc[p] = "resolved"
    /\ hist[p].firstDone >= 1
    /\ hist[p].outcome.value = ObjectUrl(Uri(p))

\* C2 as stated: a poll that received a done status with a result resolves
\* with exactly that result.
C2_ResolvesWithExactResult ==
  \A p \in Vids :
    Settled(p) /\ operation[p].done /\ operation[p].uri # Null =>
      /\ vpc[p] = "resolved"
      /\ hist[p].outcome.value = operation[p].uri

\* C3 (amended): when generateVideos or getVideosOperation fails, the poll
\* rejects at once, with no further call, with a new Error that carries the
\* failed call's message, or "Failed to generate video." when that message
\* is empty.
C3_FailsWithWrappedError ==
  \A p \in Vids :
    /\ hist[p].thrown # Null => vpc[p] = "rejected"
    /\ vpc[p] = "rejected" /\ hist[p].thrown \in ProviderErrors =>
         /\ hist[p].outcome.error.name = "Error"
         /\ hist[p].outcome.error.message =
              (IF hist[p].thrown.message = "" THEN "Failed to generate video."
               ELSE hist[p].thrown.message)
         /\ hist[p].creates = 1
         /\ hist[p].firstDone = -1

\* a status fetch failed with a non-empty message that the poll passed on
C3_Witness ==
  \E p \in Vids :
    /\ vpc[p] = "rejected"
    /\ hist[p].fetches >= 1
    /\ hist[p].thrown \in ProviderErrors
    /\ hist[p].thrown.message = "quota exceeded"
    /\ hist[p].outcome.error.message = "quota exceeded"

\* C3 as stated: the error of the failed call reaches the caller unmodified.
C3_ErrorUnmodified ==
  \A p \in Vids :
    vpc[p] = "rejected" /\ hist[p].thrown \in ProviderErrors =>
      hist[p].outcome.error = hist[p].thrown

\* C4: a job that is done with no video URI and no error makes the poll
\* reject with "No video URI in response"; it never resolves.
C4_MissingResult ==
  \A p \in Vids :
    operation[p].done /\ operation[p].uri = Null /\ operation[p].error = Null =>
      /\ vpc[p] = "rejected"
      /\ hist[p].thrown = MissingResult
      /\ hist[p].outcome.error.message = "No video URI in response"

\* a status fetch returned done with neither result nor error
C4_Witness ==
  \E p \in Vids :
    /\ operation[p].done /\ operation[p].uri = Null /\ operation[p].error = Null
    /\ hist[p].firstDone >= 1
    /\ vpc[p] = "rejected"

\* C5: a job that completes with an error payload makes the poll reject with
\* the job's reported error.
C5_JobFailed ==
  \A p \in Vids :
    vpc[p] = "rejected" /\ operation[p].done /\ operation[p].error # Null =>
      hist[p].outcome.error.message = operation[p].error.message

\* C6 (amended): the poll has no timeout: a poll that has been suspended for
\* longer than TimeoutMs goes on polling, and when it rejects it is because
\* the job reported done or a call failed.
C6_NoTimeout ==
  \A p \in Vids :
    hist[p].elapsed > TimeoutMs /\ vpc[p] = "rejected" =>
      operation[p].done \/ hist[p].thrown \in ProviderErrors

\* a job that reported done on the second fetch, after 10000 ms > TimeoutMs,
\* and whose poll resolved
C6_Witness ==
  \E p \in Vids :
    /\ hist[p].elapsed > TimeoutMs
    /\ hist[p].firstDone = 2
    /\ vpc[p] = "resolved"

\* C6 as stated: no status fetch is made once the suspended time exceeds
\* the timeout.
C6_TimeoutStopsPolling ==
  \A p \in Vids : vpc[p] = "fetch" => hist[p].elapsed <= TimeoutMs

\* C7: when generateVideos returns a job that is already done, the poll makes
\* no suspension and no status fetch and goes to the extraction of the result.
C7_DoneAtCreation ==
  \A p \in Vids :
    hist[p].firstDone = 0 =>
      /\ hist[p].sleeps = 0 /\ hist[p].fetches = 0 /\ hist[p].elapsed = 0
      /\ vpc[p] \in {"download", "blob", "resolved", "rejected"}
      /\ operation[p].uri = Null => vpc[p] = "rejected" /\ hist[p].thrown = MissingResult

\* a job done at creation whose poll resolved without a fetch
C7_Witness ==
  \E p \in Vids :
    /\ hist[p].firstDone = 0
    /\ hist[p].fetches = 0
    /\ vpc[p] = "resolved"

\* C9: a poll in flight stays in flight through every step that is not its
\* own, and it ends only by settling after the job reported done or after a
\* call of generateVideos or getVideosOperation failed.
C9_NoCancellation ==
  [][\A p \in Vids :
       Active(p) =>
         \/ Active(p)' /\ hist'[p].creates = 1
                       /\ hist'[p].fetches >= hist[p].fetches
         \/ /\ Settled(p)'
            /\ operation'[p].done \/ hist'[p].thrown \in ProviderErrors]_vars

\* a poll still fetching after a new image was selected: without aistudio a
\* poll starts in the turn of the click, which needs an image on the page
C9_Witness ==
  \E p \in Vids :
    /\ ~aistudio
    /\ vpc[p] = "fetch"
    /\ hist[p].fetches >= 2
    /\ generatedImageUrl = Null
    /\ status = "IDLE"

\* C10: every poll only ever asks for, holds and returns the state of the
\* job it created itself.
C10_NoSharedState ==
  \A p \in Vids :
    /\ asked[p] \in {0, p}
    /\ operation[p].name \in {0, p}
    /\ operation[p].uri # Null => operation[p].uri = Uri(p)
    /\ operation[p].done => operation[p] = OpOf(p, srv[p])
    /\ vpc[p] = "resolved" => hist[p].outcome.value = ObjectUrl(Uri(p))

\* two polls in flight at once: one resolved while the other still waits
C10_Witness ==
  \E p, q \in Vids :
    /\ p # q
    /\ vpc[p] = "resolved"
    /\ InLoop(q)
    /\ hist[q].fetches >= 1
    /\ ~operation[q].done

\* C8: with timers that fire and calls that settle, a poll whose job is done
\* on the provider's side eventually settles, and a poll settles only after a
\* done status or a failed call; a poll that stays in its loop for ever goes
\* on suspending and fetching for ever.
C8_Termination ==
  \A p \in Vids :
    /\ (Active(p) /\ srv[p] \notin {"none", "running"}) ~> Settled(p)
    /\ [](Settled(p) => operation[p].done \/ hist[p].thrown \in ProviderErrors)
    /\ <>[]InLoop(p) => []<>(vpc[p] = "fetch") /\ []<>(vpc[p] = "sleep")

\* a poll that has fetched MaxCount times and still waits for a running job
C8_Witness ==
  \E p \in Vids :
    /\ vpc[p] = "sleep"
    /\ hist[p].fetches = MaxCount
    /\ srv[p] = "running"

\* C11: every invocation of generateTurnaroundVideo submits one job, once, and
\* its one loop asks only for that job: an invocation that has passed the key
\* check has made exactly one generateVideos call, an invocation that has not
\* has made none and no status fetch, and every fetch is for the job created.
C11_OneJobOnePoll ==
  \A p \in Vids :
    /\ (Active(p) \/ Settled(p)) => hist[p].creates = 1
    /\ ~(Active(p) \/ Settled(p)) => hist[p].creates = 0 /\ hist[p].fetches = 0
    /\ hist[p].fetches > 0 => asked[p] = p /\ operation[p].name = p
    /\ vpc[p] = "fetch" => srv[asked[p]] # "none"

\* two requests, each with its own job, both in their loops after fetching
C11_Witness ==
  \E p, q \in Vids :
    /\ p # q
    /\ vpc[p] = "fetch" /\ hist[p].fetches >= 2 /\ hist[p].creates = 1
    /\ vpc[q] = "sleep" /\ hist[q].fetches >= 1 /\ hist[q].creates = 1

\* C12: within one poll the calls are ordered. The creation is made once and
\* has returned before the first fetch; a fetch is issued only when a suspension
\* ends, one per suspension, and a suspension starts only when the creation or a
\* fetch has returned, so that suspensions and fetches alternate; a fetch is
\* given the handle the call just before it returned.
C12_CallOrder ==
  [][\A p \in Vids :
       /\ (vpc'[p] = "fetch" /\ vpc[p] # "fetch") =>
             /\ vpc[p] = "sleep"
             /\ hist[p].creates = 1 /\ hist'[p].creates = 1
             /\ operation[p].name = p
             /\ asked'[p] = operation[p].name
             /\ hist'[p].sent = Rev(hist[p].fetches)
             /\ hist'[p].sleeps = Inc(hist[p].sleeps)
             /\ hist'[p].fetches = Inc(hist[p].fetches)
       /\ (vpc[p] = "fetch" /\ vpc'[p] = "fetch") =>
             hist'[p] = hist[p] /\ asked'[p] = asked[p]
       /\ (vpc'[p] = "sleep" /\ vpc[p] # "sleep") =>
             /\ vpc[p] \in {"create", "fetch"}
             /\ hist'[p].held = Rev(hist[p].fetches)
             /\ hist'[p].sleeps = hist[p].sleeps
             /\ hist'[p].fetches = hist[p].fetches
       /\ (vpc[p] = "sleep" /\ vpc'[p] # "sleep") => vpc'[p] = "fetch"
       /\ vpc[p] = "create" => hist[p].fetches = 0 /\ hist[p].sleeps = 0
       /\ hist[p].sleeps = hist[p].fetches
  ]_vars

\* the third fetch of a poll is out, given the result of the second
C12_Witness ==
  \E p \in Vids :
    /\ vpc[p] = "fetch"
    /\ hist[p].fetches = 3
    /\ hist[p].sleeps = 3
    /\ hist[p].sent = 2
    /\ hist[p].held = 2

\* C13: the result is extracted only from a done job that has a URI. The
\* download is requested at most once per poll, only after a status with done
\* and a URI, and it has been requested once by the time the poll resolves; a
\* download answered with a status that is not OK rejects the poll with
\* "Failed to download video: ..." and the poll returns no object URL.
C13_ResultExtraction ==
  \A p \in Vids :
    /\ hist[p].downloads <= 1
    /\ hist[p].downloads = 1 =>
          /\ operation[p].done
          /\ VideoUri(operation[p]) = Uri(p)
          /\ hist[p].firstDone >= 0
    /\ vpc[p] \in {"download", "blob", "resolved"} <=>
          (hist[p].downloads = 1 /\ hist[p].thrown = Null)
    /\ hist[p].thrown = DownloadFailed =>
          /\ vpc[p] = "rejected"
          /\ hist[p].downloads = 1
          /\ hist[p].outcome = [kind |-> "rejected", error |-> DownloadFailed]
    /\ vpc[p] = "resolved" =>
          hist[p].outcome = [kind |-> "resolved", value |-> ObjectUrl(Uri(p))]

\* a poll that fetched, saw done with a URI, and whose download was refused
C13_Witness ==
  \E p \in Vids :
    /\ vpc[p] = "rejected"
    /\ hist[p].thrown = DownloadFailed
    /\ hist[p].downloads = 1
    /\ hist[p].firstDone >= 1

\* C14: handleGenerate takes status through PROCESSING to SUCCESS or ERROR.
\* While a generateView call is out status was set to PROCESSING before it;
\* once no invocation is between its setStatus(PROCESSING) and its return,
\* status is not PROCESSING; SUCCESS comes with an image and ERROR with an
\* error.
C14_StatusSettles ==
  /\ (\A g \in Gens : gpc[g] \in {"idle", "hasKey", "selectKey"}) =>
        status # "PROCESSING"
  /\ status = "SUCCESS" => generatedImageUrl # Null
  /\ status = "ERROR" => error # Null

\* what a handler whose key check fails must leave alone
KeyCheckFrame ==
  UNCHANGED <<status, error, analysis, videoUrl, generatedImageUrl,
              isGeneratingVideo, isAnalyzing>>

\* C15: the provider calls are gated on the key check. generateView is called
\* for 2K or 4K, and generateTurnaroundVideo at all, only in a step in which
\* checkApiKey returns true (at once when there is no aistudio, or when
\* hasSelectedApiKey answers yes, or when openSelectKey resolves); a step in
\* which checkApiKey returns false ends the handler and changes none of status,
\* error, analysis, videoUrl, generatedImageUrl and the busy flags; a
\* handleGenerate made at 1K never asks for the key.
C15_KeyGate ==
  [][/\ \A g \in Gens :
          /\ (gpc'[g] = "generate" /\ gpc[g] # "generate") =>
                \/ gpc[g] = "idle" /\ (resolution = "1K" \/ ~aistudio)
                \/ GenHasKeySettles(g, "yes")
                \/ GenSelectKeySettles(g, TRUE)
          /\ GenSelectKeySettles(g, FALSE) => gpc'[g] = "idle" /\ KeyCheckFrame
          /\ gpc'[g] \in {"hasKey", "selectKey"} => gres'[g] # "1K"
          /\ (gpc[g] = "idle" /\ gpc'[g] # "idle" /\ resolution = "1K") =>
                gpc'[g] = "generate"
     /\ \A p \in Vids :
          /\ (vpc'[p] = "create" /\ vpc[p] # "create") =>
                \/ vpc[p] = "idle" /\ ~aistudio
                \/ VidHasKeySettles(p, "yes")
                \/ VidSelectKeySettles(p, TRUE)
          /\ VidSelectKeySettles(p, FALSE) => vpc'[p] = "idle" /\ KeyCheckFrame
  ]_vars

\* both handlers wait in the key dialog, at 2K or 4K, with an image, an
\* analysis and an error on the page and nothing set by either of them
C15_Witness ==
  \E g \in Gens, p \in Vids :
    /\ gpc[g] = "selectKey" /\ gres[g] # "1K"
    /\ vpc[p] = "selectKey"
    /\ status = "ERROR" /\ error # Null
    /\ generatedImageUrl # Null /\ analysis # Null
    /\ ~isGeneratingVideo

\* C16: selecting an image resets the session and keeps the parameters. Every
\* handleImageSelected(f) leaves status IDLE, generatedImageUrl, analysis,
\* videoUrl and error null and selectedFile f, and changes none of viewType,
\* poseConfig, backgroundConfig, resolution, customPrompt and fidelity.
C16_SelectResets ==
  [][\A f \in Files :
       SelectImage(f) =>
         /\ status' = "IDLE"
         /\ generatedImageUrl' = Null
         /\ analysis' = Null
         /\ videoUrl' = Null
         /\ error' = Null
         /\ selectedFile' = f
         /\ UNCHANGED <<viewType, poseConfig, backgroundConfig, resolution,
                        customPrompt, fidelity>>
  ]_vars

\* an image was selected over a generated one whose analysis is still out, with
\* every parameter moved from its default
C16_Witness ==
  /\ status = "IDLE" /\ selectedFile # Null
  /\ generatedImageUrl = Null /\ analysis = Null /\ videoUrl = Null /\ error = Null
  /\ isAnalyzing
  /\ viewType = "FRONT" /\ poseConfig.armAngle = 45
  /\ backgroundConfig.type = "TRANSPARENT" /\ resolution = "4K"
  /\ customPrompt # "" /\ fidelity = 50

\* an invocation of handleGenerateVideo between setIsGeneratingVideo(true) and
\* its finally
VideoInFlight(p) == vpc[p] \notin {"idle", "hasKey", "selectKey"}

\* C17: the busy flags are released. isGeneratingVideo becomes true only in a
\* step in which the key check passes and the poll starts; an invocation of
\* handleGenerateVideo that returns, after generateTurnaroundVideo resolved or
\* rejected and after the recovery dialog if there was one, leaves it false;
\* handleAnalyze leaves isAnalyzing false when analyzeStyleConsistency settles;
\* in every state without an invocation in flight the flag is false.
C17_FlagsReleased ==
  /\ []((\A p \in Vids : ~VideoInFlight(p)) => ~isGeneratingVideo)
  /\ [](apc = "idle" <=> ~isAnalyzing)
  /\ [][/\ (isGeneratingVideo' /\ ~isGeneratingVideo) =>
            \E p \in Vids :
              /\ vpc'[p] = "create"
              /\ \/ vpc[p] = "idle" /\ ~aistudio
                 \/ VidHasKeySettles(p, "yes")
                 \/ VidSelectKeySettles(p, TRUE)
        /\ \A p \in Vids :
             (VideoInFlight(p) /\ ~VideoInFlight(p)') => ~isGeneratingVideo'
        /\ (apc = "analyze" /\ apc' = "idle") => ~isAnalyzing'
     ]_vars

\* a video and an analysis have been delivered, a second video request ended
\* in the recovery dialog, and nothing is in flight any more
C17_Witness ==
  /\ \A p \in Vids : vpc[p] = "idle"
  /\ apc = "idle"
  /\ videoUrl # Null /\ analysis # Null
  /\ error = Msg(KeyIssueText)
  /\ ~isGeneratingVideo /\ ~isAnalyzing

\* C18: the key-error recovery. When generateView or generateTurnaroundVideo
\* rejects with a message containing "Requested entity was not found" and
\* aistudio exists, the handler opens the key dialog and returns with error set
\* to the fixed API-key message; for every other rejection it sets error to
\* the message it caught and opens no dialog.
C18_KeyErrorRecovery ==
  [][/\ \A g \in Gens :
          /\ \A m \in GenerateMessages :
               GenerateSettles(g, FALSE, m) =>
                 IF IsKeyError(m) /\ aistudio
                   THEN gpc'[g] = "recover"
                   ELSE gpc'[g] = "idle" /\ error' = Msg(m)
          /\ (gpc[g] = "recover" /\ gpc'[g] = "idle") => error' = Msg(KeyIssueText)
     /\ \A p \in Vids :
          /\ (vpc[p] = "rejected" /\ VidContinues(p)) =>
               IF IsKeyError(hist[p].outcome.error.message) /\ aistudio
                 THEN vpc'[p] = "recover"
                 ELSE vpc'[p] = "idle" /\ error' = Msg(hist[p].outcome.error.message)
          /\ (vpc[p] = "recover" /\ vpc'[p] = "idle") => error' = Msg(KeyIssueText)
  ]_vars

\* C19: the model generateView asks follows the resolution handleGenerate
\* holds. A request made at 1K names gemini-2.5-flash-image and no imageSize; a
\* request made at 2K or 4K names gemini-3-pro-image-preview with that
\* resolution as imageSize; and a generateView call asks for the pro model
\* exactly when the invocation went through checkApiKey before it.
C19_ModelFollowsResolution ==
  /\ [](\A g \in Gens :
          gpc[g] \in {"generate", "recover"} =>
            greq[g] = IF gres[g] = "1K"
                        THEN [model |-> "gemini-2.5-flash-image", imageSize |-> "none"]
                        ELSE [model |-> "gemini-3-pro-image-preview",
                              imageSize |-> gres[g]])
  /\ [][\A g \in Gens :
          (gpc'[g] = "generate" /\ gpc[g] # "generate") =>
            (greq'[g].model = "gemini-3-pro-image-preview" <=>
               \/ gpc[g] \in {"hasKey", "selectKey"}
               \/ gpc[g] = "idle" /\ resolution # "1K")
     ]_vars

\* a 4K request for the pro model goes out after the key dialog, the page
\* being back at 1K by then
C19_Witness ==
  \E g \in Gens :
    /\ gpc[g] = "generate"
    /\ aistudio
    /\ greq[g] = [model |-> "gemini-3-pro-image-preview", imageSize |-> "4K"]
    /\ resolution = "1K"

\* C20: at most one generateView call is in flight, whatever the clicks, also
\* those that come while checkApiKey is awaited.
C20_OneGenerateView ==
  Cardinality({g \in Gens : gpc[g] = "generate"}) <= 1

\* C21: at most one generateTurnaroundVideo call is in flight, whatever the
\* clicks on the footer button and on the button of the Turnaround tab, also
\* those that come while checkApiKey is awaited.
C21_OneVideoPoll ==
  Cardinality({p \in Vids : Active(p)}) <= 1

====
